---- MODULE Spec2Model ----
(***************************************************************************)
(* A model of src/src/processor.ts: the ENS indexer's batch handler        *)
(* (processor.run), the three event decoders, the contract singleton       *)
(* resolver getOrCreateContractEntity and the reconciliation routine       *)
(* saveENSData, run against a store with point lookup, insert and upsert.  *)
(*                                                                         *)
(* One action is one run-to-completion segment of the JavaScript code:     *)
(* the code between two awaits.                                            *)
(***************************************************************************)
EXTENDS Integers, Sequences, FiniteSets, TLC

----------------------------------------------------------------------------
(* Bounds of the model *)

\* most events delivered over the run, in one batch or in several
MaxEvents == 2
\* most events of a batch whose events are all on one token
MaxTokenEvents == 3
\* most distinct batches delivered
MaxBatches == 2
\* most restarts of the process between two batches
MaxRestarts == 1
\* most times the last batch is delivered again (at-least-once delivery)
MaxRedeliveries == 1
\* most direct invocations of getOrCreateContractEntity by one concurrent caller
MaxCalls == 2
\* Date.now() when the process starts, and the latest clock value modelled
StartNow == 2000
MaxNow == 4000

(* Program constants *)

\* `expires * 1000 < Date.now()`
MsPerSec == 1000

----------------------------------------------------------------------------
(* Values *)

\* String.prototype.toLowerCase on the strings of the model
ToLowerCase(s) ==
  CASE s = "0xAb" -> "0xab"
    [] s = "0x57F1" -> "0x57f1"
    [] OTHER -> s

\* const contractAddress = "0x57f1887a8BF19b14fC0dF6Fd9B2acc9Af147eA85".toLowerCase()
contractAddress == ToLowerCase("0x57F1")

\* bigint.toString(): the decimal string of a token id
TokenIdString(n) ==
  CASE n = 1 -> "1"
    [] n = 2 -> "2"

\* the addresses an event may carry, as events.X.decode returns them: a
\* checksummed (mixed-case) address, and the zero address, which has no letters
ZeroAddress == "0x00"
Addresses == {"0xAb", ZeroAddress}
\* "" stands for an absent (undefined) or empty address: `from || ""`
Absent == ""
AddressValues == Addresses \cup {Absent}
OwnerIds == {ToLowerCase(a) : a \in Addresses}
TokenIds == {1, 2}
TokenIdStrings == {TokenIdString(n) : n \in TokenIds}

\* expires?: number.  NoExpires is undefined; 1 is in the past and 3 in the future
\* of StartNow; 0 is the falsy number
NoExpires == -1
ExpiresValues == {NoExpires, 0, 1, 3}

\* an undefined/null string column
Undef == "undefined"

\* an Owner object: its id and which object of that id it is (0: not an object the
\* batch loaded or constructed);  NoOwner is undefined
NoOwner == [id |-> "", oid |-> 0]
\* a GoodContract object;  NoContract is undefined
NoContract == [id |-> "", oid |-> 0]

\* JavaScript truthiness of an optional string / an optional number
TruthyStr(s) == s # Absent
TruthyNum(n) == n # NoExpires /\ n # 0

\* Map.get / Map.set on a map held as a function
MapGet(m, k, none) == IF k \in DOMAIN m THEN m[k] ELSE none
MapSet(m, k, v) == [x \in DOMAIN m \cup {k} |-> IF x = k THEN v ELSE m[x]]
EmptyMap == [x \in {} |-> NoOwner]

SeqsUpTo(S, n) == UNION {[1..k -> S] : k \in 0..n}

----------------------------------------------------------------------------
(* The event decoders *)

\* a block item: an EVM log of one of the three topics, or an item that is no log
LogItems ==
  [kind : {"evmLog"}, address : {contractAddress}, topic : {"NameRegistered"},
   from : {Absent}, to : Addresses, id : TokenIds, expires : {0, 1, 3}]
  \cup
  [kind : {"evmLog"}, address : {contractAddress}, topic : {"NameRenewed"},
   from : {Absent}, to : {Absent}, id : TokenIds, expires : {0, 1, 3}]
  \cup
  [kind : {"evmLog"}, address : {contractAddress}, topic : {"Transfer"},
   from : Addresses, to : Addresses, id : TokenIds, expires : {NoExpires}]
  \cup
  [kind : {"transaction"}, address : {contractAddress}, topic : {"none"},
   from : {Absent}, to : {Absent}, id : {1}, expires : {NoExpires}]

\* the logs on token 1 that carry no expiration value or a future one
OneTokenItems ==
  {i \in LogItems : i.kind = "evmLog" /\ i.id = 1 /\ i.expires \in {NoExpires, 3}}

\* the synthetic id `${transaction.hash}-${evmLog.address}-${id}-${evmLog.index}`:
\* the batch (block range) and the log's index in it
SyntheticId(b, k) == <<b, k>>

handleNameRegistered(item, b, k) ==
  [id |-> SyntheticId(b, k), from |-> Absent, to |-> item.to, tokenId |-> item.id,
   expires |-> item.expires, block |-> b]

handleNameRenewed(item, b, k) ==
  [id |-> SyntheticId(b, k), from |-> Absent, to |-> Absent, tokenId |-> item.id,
   expires |-> item.expires, block |-> b]

handleTransfer(item, b, k) ==
  [id |-> SyntheticId(b, k), from |-> item.from, to |-> item.to, tokenId |-> item.id,
   expires |-> NoExpires, block |-> b]

\* the handler's loop over the items: ensDataArr after the first k items
RECURSIVE DecodeItems(_, _, _)
DecodeItems(items, b, k) ==
  IF k = 0 THEN <<>>
  ELSE LET i == items[k]
           sofar == DecodeItems(items, b, k - 1)
           isLog == i.address = contractAddress /\ i.kind = "evmLog"
           a1 == IF isLog /\ i.topic = "NameRegistered"
                 THEN Append(sofar, handleNameRegistered(i, b, k)) ELSE sofar
           a2 == IF isLog /\ i.topic = "NameRenewed"
                 THEN Append(a1, handleNameRenewed(i, b, k)) ELSE a1
           a3 == IF isLog /\ i.topic = "Transfer"
                 THEN Append(a2, handleTransfer(i, b, k)) ELSE a2
       IN a3

----------------------------------------------------------------------------
(* The store: rows keyed by primary identity *)

\* a Token object (src/unnamed/part_000): owner and contract are object references
NewToken(t, c) ==
  [id |-> t, owner |-> NoOwner, name |-> Undef, uri |-> Undef, imageURI |-> Undef,
   expires |-> NoExpires, contract |-> c]

\* the row an upsert writes for a Token object: references become foreign keys
TokenRow(tok) ==
  [id |-> tok.id, owner |-> tok.owner.id, name |-> tok.name, uri |-> tok.uri,
   imageURI |-> tok.imageURI, expires |-> tok.expires, contract |-> tok.contract.id]

\* the Token object a lookup builds from a row; an object it references is not
\* one the batch loaded into its owner map (oid 0)
TokenOfRow(row) ==
  [id |-> row.id, owner |-> [id |-> row.owner, oid |-> 0], name |-> row.name,
   uri |-> row.uri, imageURI |-> row.imageURI, expires |-> row.expires,
   contract |-> [id |-> row.contract, oid |-> 0]]

TransferRow(tr) ==
  [id |-> tr.id, block |-> tr.block, from |-> tr.from.id, to |-> tr.to.id,
   token |-> tr.token]

\* store.findBy(Token, {id: In(ids)}) as the array-to-Map of lines 209-214
FindTokens(rows, ids) ==
  [t \in (ids \cap DOMAIN rows) |-> TokenOfRow(rows[t])]

\* store.findBy(Owner, {id: In(ids)}) as the array-to-Map of lines 216-221
FindOwners(rows, ids) ==
  [a \in (ids \cap rows) |-> [id |-> a, oid |-> 1]]

\* store.save(entities): insert if absent, overwrite the row if present
UpsertTokens(rows, tokmap) ==
  [t \in DOMAIN rows \cup DOMAIN tokmap |->
     IF t \in DOMAIN tokmap THEN TokenRow(tokmap[t]) ELSE rows[t]]

UpsertOwners(rows, ownmap) == rows \cup {ownmap[k].id : k \in DOMAIN ownmap}

UpsertTransfers(rows, trs) ==
  {r \in rows : \A tr \in trs : tr.id # r.id} \cup {TransferRow(tr) : tr \in trs}

\* the metadata service's full answer for a token: meta.data
MetaData(t) ==
  CASE t = "1" -> [name |-> "one.eth", url |-> "https://one", image |-> "image-one"]
    [] t = "2" -> [name |-> "two.eth", url |-> "https://two", image |-> "image-two"]

\* the payloads axios.get may resolve with for a token: the full answer, an
\* answer with a name only, and one without any of the three fields (an empty
\* object, a body that is no JSON); reading a missing field gives undefined
MetaPayloads(t) ==
  {MetaData(t),
   [name |-> MetaData(t).name, url |-> Undef, image |-> Undef],
   [name |-> Undef, url |-> Undef, image |-> Undef]}

\* how the try block of lines 271-278 may end for a token: axios.get rejects or
\* reading the response throws (no data), or it resolves with a payload
AxiosResults(t) ==
  {[threw |-> TRUE, data |-> [name |-> Undef, url |-> Undef, image |-> Undef]]}
  \cup {[threw |-> FALSE, data |-> d] : d \in MetaPayloads(t)}

\* the name under which a result is recorded for the run
ResultTag(t, res) ==
  CASE res.threw -> "failed"
    [] ~res.threw /\ res.data = MetaData(t) -> "ok"
    [] ~res.threw /\ res.data # MetaData(t) /\ res.data.name # Undef -> "nameonly"
    [] OTHER -> "nofields"

----------------------------------------------------------------------------
(* State *)

VARIABLES
  \* the store
  dbOwners, dbTokens, dbTransfers, dbGood, dbBad,
  \* let contractEntity: the process-wide cache
  contractEntity,
  \* Date.now()
  now,
  \* the batch handler: where it is, and the locals of processor.run and saveENSData
  pc, batch, batchNo, delivered, redeliveries, restarts, idx, tokensIds, ownersIds,
  tokens, owners, transfers, fromOwner, toOwner,
  \* getOrCreateContractEntity, per caller: where it is, the latched result of
  \* store.get, the value returned, the calls made
  gpc, gfound, ret, calls,
  \* observations of the run: Owner objects materialised per id in this batch,
  \* contract objects made, store calls issued, instances returned, the token map
  \* when the current event began, the enrichment outcome of each event of this
  \* run and of the previous run of the same batch, the store after that run,
  \* whether this run is a second delivery, the clock when each event of this
  \* run was applied
  made, nObjs, nGet, nInsGood, nInsBad, returned, tokBefore, enrichLog, prevLog,
  dbAfter, rerun, clockAt,
  \* the batch's transaction and its fate: the store when the handler was
  \* called, how the last run of the handler ended and how the run before it of
  \* the same batch ended, the store a failed save would have left had it and
  \* the saves after it succeeded
  dbStart, outcome, retryOf, dbWould

dbVars == <<dbOwners, dbTokens, dbTransfers, dbGood, dbBad>>
batchVars == <<pc, batch, batchNo, delivered, redeliveries, restarts, idx, tokensIds,
               ownersIds, tokens, owners, transfers, fromOwner, toOwner>>
gocVars == <<gpc, gfound, ret, calls>>
obsVars == <<made, nObjs, nGet, nInsGood, nInsBad, returned, tokBefore, enrichLog,
             prevLog, dbAfter, rerun, clockAt>>
failVars == <<dbStart, outcome, retryOf, dbWould>>
vars == <<dbVars, contractEntity, now, batchVars, gocVars, obsVars, failVars>>

\* the handler's own call, and callers that invoke the exported resolver directly
Callers == {"main", "other"}

DbState == [owners |-> dbOwners, tokens |-> dbTokens, transfers |-> dbTransfers,
            good |-> dbGood, bad |-> dbBad]

NoTokens == [x \in {} |-> NewToken("1", NoContract)]
NoDb == [owners |-> {}, tokens |-> NoTokens, transfers |-> {}, good |-> FALSE,
         bad |-> FALSE]

\* the first process starts on an empty store
Init ==
  /\ dbOwners = {} /\ dbTokens = NoTokens /\ dbTransfers = {}
  /\ dbGood = FALSE /\ dbBad = FALSE
  /\ contractEntity = NoContract
  /\ now = StartNow
  /\ pc = "idle" /\ batch = <<>> /\ batchNo = 0 /\ delivered = 0
  /\ redeliveries = 0 /\ restarts = 0 /\ idx = 0
  /\ tokensIds = {} /\ ownersIds = {} /\ tokens = NoTokens /\ owners = EmptyMap
  /\ transfers = {} /\ fromOwner = NoOwner /\ toOwner = NoOwner
  /\ gpc = [c \in Callers |-> "idle"] /\ gfound = [c \in Callers |-> FALSE]
  /\ ret = [c \in Callers |-> NoContract] /\ calls = [c \in Callers |-> 0]
  /\ made = [a \in OwnerIds |-> 0] /\ nObjs = 0 /\ nGet = 0 /\ nInsGood = 0
  /\ nInsBad = 0 /\ returned = {} /\ tokBefore = NoTokens /\ enrichLog = <<>>
  /\ prevLog = <<>> /\ dbAfter = NoDb /\ rerun = FALSE
  /\ clockAt = <<>>
  /\ dbStart = NoDb /\ outcome = "none" /\ retryOf = "none" /\ dbWould = NoDb

----------------------------------------------------------------------------
(* getOrCreateContractEntity, lines 82-108 *)

\* a variant that never trusts the cache
CacheNeverFilled(ce) == TRUE

\* `if (contractEntity == null)`, lines 85 and 87
CacheIsEmpty(ce) == ce = NoContract

\* the entry of a call by c: a filled cache is returned at once, an empty one
\* issues store.get(GoodContract, contractAddress)
GocEnter(c) ==
  /\ calls' = [calls EXCEPT ![c] = calls[c] + 1]
  /\ IF CacheIsEmpty(contractEntity)
     THEN /\ gpc' = [gpc EXCEPT ![c] = "get"]
          /\ nGet' = nGet + 1
          /\ UNCHANGED <<ret, returned>>
     ELSE /\ gpc' = [gpc EXCEPT ![c] = "done"]
          /\ ret' = [ret EXCEPT ![c] = contractEntity]
          /\ returned' = returned \cup {contractEntity}
          /\ UNCHANGED nGet

\* the store runs the point lookup
GocGetExec(c) ==
  /\ gpc[c] = "get"
  /\ gpc' = [gpc EXCEPT ![c] = "got"]
  /\ gfound' = [gfound EXCEPT ![c] = dbGood]
  /\ UNCHANGED <<dbVars, contractEntity, now, batchVars, ret, calls, obsVars>>
  /\ UNCHANGED failVars

\* the await of store.get resumes: its result is assigned to contractEntity; if
\* that is null a GoodContract and a BadContract are constructed, the first is
\* assigned to contractEntity and its insert is issued
GocGetResume(c) ==
  /\ gpc[c] = "got"
  /\ nObjs' = nObjs + 1
  /\ LET fresh == [id |-> contractAddress, oid |-> nObjs + 1]
         looked == IF gfound[c] THEN fresh ELSE NoContract
     IN IF CacheIsEmpty(looked)
        THEN /\ contractEntity' = fresh
             /\ gpc' = [gpc EXCEPT ![c] = "insGood"]
             /\ nInsGood' = nInsGood + 1
             /\ UNCHANGED <<ret, returned>>
        ELSE /\ contractEntity' = looked
             /\ gpc' = [gpc EXCEPT ![c] = "done"]
             /\ ret' = [ret EXCEPT ![c] = looked]
             /\ returned' = returned \cup {looked}
             /\ UNCHANGED nInsGood
  /\ UNCHANGED <<dbVars, now, batchVars, gfound, calls, made, nGet, nInsBad,
                 tokBefore, enrichLog, prevLog, dbAfter, rerun, clockAt>>
  /\ UNCHANGED failVars

\* store.insert(contractEntity) ends: the row is written, or the insert fails on
\* the primary key; after it the insert of the BadContract is issued
GocInsertGood(c) ==
  /\ gpc[c] = "insGood"
  /\ IF dbGood
     THEN /\ gpc' = [gpc EXCEPT ![c] = "threw"]
          /\ UNCHANGED <<dbGood, nInsBad>>
     ELSE /\ dbGood' = TRUE
          /\ gpc' = [gpc EXCEPT ![c] = "insBad"]
          /\ nInsBad' = nInsBad + 1
  /\ UNCHANGED <<dbOwners, dbTokens, dbTransfers, dbBad, contractEntity, now,
                 batchVars, gfound, ret, calls, made, nObjs, nGet, nInsGood,
                 returned, tokBefore, enrichLog, prevLog, dbAfter, rerun, clockAt>>
  /\ UNCHANGED failVars

\* a variant that returns without the insert of the BadContract
GocReturnAfterGood(c) ==
  /\ gpc[c] = "insBad"
  /\ gpc' = [gpc EXCEPT ![c] = "done"]
  /\ ret' = [ret EXCEPT ![c] = contractEntity]
  /\ returned' = returned \cup {contractEntity}
  /\ UNCHANGED <<dbVars, contractEntity, now, batchVars, gfound, calls, made,
                 nObjs, nGet, nInsGood, nInsBad, tokBefore, enrichLog, prevLog,
                 dbAfter, rerun, clockAt, failVars>>

\* store.insert(badContractEntity) ends; `return contractEntity`
GocInsertBad(c) ==
  /\ gpc[c] = "insBad"
  /\ IF dbBad
     THEN /\ gpc' = [gpc EXCEPT ![c] = "threw"]
          /\ UNCHANGED <<dbBad, ret, returned>>
     ELSE /\ dbBad' = TRUE
          /\ gpc' = [gpc EXCEPT ![c] = "done"]
          /\ ret' = [ret EXCEPT ![c] = contractEntity]
          /\ returned' = returned \cup {contractEntity}
  /\ UNCHANGED <<dbOwners, dbTokens, dbTransfers, dbGood, contractEntity, now,
                 batchVars, gfound, calls, made, nObjs, nGet, nInsGood, nInsBad,
                 tokBefore, enrichLog, prevLog, dbAfter, rerun, clockAt>>
  /\ UNCHANGED failVars

\* a caller other than the batch handler calls the exported function
Invoke(c) ==
  /\ gpc[c] \in {"idle", "done", "threw"}
  /\ calls[c] < MaxCalls
  /\ GocEnter(c)
  /\ UNCHANGED <<dbVars, contractEntity, now, batchVars, gfound, made, nObjs,
                 nInsGood, nInsBad, tokBefore, enrichLog, prevLog, dbAfter, rerun, clockAt>>
  /\ UNCHANGED failVars

----------------------------------------------------------------------------
(* saveENSData, lines 194-307 *)

\* lines 198-205: the ids the batch names
TokensIdsOf(arr) == {TokenIdString(arr[k].tokenId) : k \in 1..Len(arr)}
OwnersIdsOf(arr) ==
  {ToLowerCase(arr[k].from) : k \in {j \in 1..Len(arr) : TruthyStr(arr[j].from)}}
  \cup
  {ToLowerCase(arr[k].to) : k \in {j \in 1..Len(arr) : TruthyStr(arr[j].to)}}

\* the handler has built ensDataArr and calls saveENSData: lines 198-207, and the
\* lookup of the tokens is issued
StartSave(arr) ==
  /\ batch' = arr
  /\ tokensIds' = TokensIdsOf(arr)
  /\ ownersIds' = OwnersIdsOf(arr)
  /\ transfers' = {}
  /\ pc' = "findTokens"
  /\ enrichLog' = [k \in 1..Len(arr) |-> "todo"]
  /\ clockAt' = [k \in 1..Len(arr) |-> 0]
  /\ dbStart' = DbState
  /\ UNCHANGED outcome
  /\ UNCHANGED <<dbVars, contractEntity, now, idx, tokens, owners, fromOwner,
                 toOwner, gocVars, made, nObjs, nGet, nInsGood, nInsBad, returned,
                 tokBefore>>

\* processor.run's handler, lines 38-78, on the items of a new batch
RunHandler ==
  /\ pc = "idle"
  /\ batchNo < MaxBatches
  /\ batchNo' = batchNo + 1
  /\ prevLog' = <<>>
  /\ dbAfter' = NoDb
  /\ rerun' = FALSE
  /\ retryOf' = "none"
  /\ dbWould' = NoDb
  /\ UNCHANGED <<redeliveries, restarts>>
  /\ \E items \in SeqsUpTo(LogItems, MaxEvents - delivered) :
       /\ delivered' = delivered + Len(items)
       /\ StartSave(DecodeItems(items, batchNo + 1, Len(items)))

\* processor.run's handler, lines 38-78, on a first batch of logs on one token
RunHandlerOneToken ==
  /\ pc = "idle"
  /\ delivered = 0
  /\ batchNo < MaxBatches
  /\ batchNo' = batchNo + 1
  /\ prevLog' = <<>>
  /\ dbAfter' = NoDb
  /\ rerun' = FALSE
  /\ retryOf' = "none"
  /\ dbWould' = NoDb
  /\ UNCHANGED <<redeliveries, restarts>>
  /\ \E items \in SeqsUpTo(OneTokenItems, MaxTokenEvents) :
       /\ delivered' = Len(items)
       /\ StartSave(DecodeItems(items, batchNo + 1, Len(items)))

\* the same batch is delivered again
Redeliver ==
  /\ pc = "idle"
  /\ batchNo > 0
  /\ redeliveries < MaxRedeliveries
  /\ redeliveries' = redeliveries + 1
  /\ prevLog' = enrichLog
  /\ dbAfter' = DbState
  /\ rerun' = TRUE
  /\ retryOf' = outcome
  /\ UNCHANGED dbWould
  /\ UNCHANGED <<batchNo, delivered, restarts>>
  /\ StartSave(batch)

\* lines 209-214 resume with the tokens found; the lookup of the owners is issued
FetchTokens ==
  /\ pc = "findTokens"
  /\ tokens' = FindTokens(dbTokens, tokensIds)
  /\ pc' = "findOwners"
  /\ UNCHANGED <<dbVars, contractEntity, now, batch, batchNo, delivered, redeliveries, restarts, idx,
                 tokensIds, ownersIds, owners, transfers, fromOwner, toOwner,
                 gocVars, obsVars>>
  /\ UNCHANGED failVars

\* lines 216-221 resume with the owners found; the loop begins
FetchOwners ==
  /\ pc = "findOwners"
  /\ owners' = FindOwners(dbOwners, ownersIds)
  /\ made' = [a \in OwnerIds |-> IF a \in ownersIds \cap dbOwners THEN 1 ELSE 0]
  /\ idx' = 1
  /\ pc' = "loop"
  /\ UNCHANGED <<dbVars, contractEntity, now, batch, batchNo, delivered, redeliveries, restarts,
                 tokensIds, ownersIds, tokens, transfers, fromOwner, toOwner,
                 gocVars, nObjs, nGet, nInsGood, nInsBad, returned, tokBefore,
                 enrichLog, prevLog, dbAfter, rerun, clockAt>>
  /\ UNCHANGED failVars

\* `owners.get(addr || "")`
OwnerLookup(ownmap, addr) == MapGet(ownmap, addr, NoOwner)

\* a variant that takes the zero address for an absent one
MustCreateOwnerNonZero(addr, found) ==
  TruthyStr(addr) /\ addr # ZeroAddress /\ found = NoOwner

\* `if (addr && owner == null)`
MustCreateOwner(addr, found) == TruthyStr(addr) /\ found = NoOwner

\* a variant that constructs the Owner without putting it in the owner map
ResolveOwnerUnmapped(ownmap, counts, addr) ==
  LET found == OwnerLookup(ownmap, addr)
      key == ToLowerCase(addr)
  IN IF MustCreateOwner(addr, found)
     THEN LET obj == [id |-> key, oid |-> counts[key] + 1]
          IN [owner |-> obj, map |-> ownmap,
              counts |-> [counts EXCEPT ![key] = counts[key] + 1]]
     ELSE [owner |-> found, map |-> ownmap, counts |-> counts]

\* lines 237-241 and 245-249: the owner of an address, the owner map and the
\* object counts after it
ResolveOwner(ownmap, counts, addr) ==
  LET found == OwnerLookup(ownmap, addr)
      key == ToLowerCase(addr)
  IN IF MustCreateOwner(addr, found)
     THEN LET obj == [id |-> key, oid |-> counts[key] + 1]
          IN [owner |-> obj, map |-> MapSet(ownmap, obj.id, obj),
              counts |-> [counts EXCEPT ![key] = counts[key] + 1]]
     ELSE [owner |-> found, map |-> ownmap, counts |-> counts]

\* a variant that assigns the owner only to a token that has none
AssignOwnerOnce(tok, o) ==
  IF tok.owner = NoOwner THEN [tok EXCEPT !.owner = o] ELSE tok

\* line 260
AssignOwner(tok, o) == [tok EXCEPT !.owner = o]

\* line 262, `if (expires)`
CarriesExpires(e) == TruthyNum(e.expires)

\* a variant that extends the expiration by the event's value
AssignExpiresAdded(tok, e) == [tok EXCEPT !.expires = tok.expires + e.expires]

\* line 263, BigInt(expires) of an integral number
AssignExpires(tok, e) == [tok EXCEPT !.expires = e.expires]

\* line 264
IsExpired(e, t) == e.expires * MsPerSec < t

\* a variant that asks for the receiver only
MakesTransferReceiverOnly(fo, too) == too # NoOwner

\* line 289
MakesTransfer(fo, too) == too # NoOwner /\ fo # NoOwner

\* a variant that swaps the two owners of the Transfer
AddTransferSwapped(trs, e, fo, too) ==
  IF MakesTransfer(fo, too)
  THEN trs \cup {[id |-> e.id, block |-> e.block, from |-> too, to |-> fo,
                  token |-> TokenIdString(e.tokenId)]}
  ELSE trs

\* lines 290-300
AddTransfer(trs, e, fo, too) ==
  IF MakesTransfer(fo, too)
  THEN trs \cup {[id |-> e.id, block |-> e.block, from |-> fo, to |-> too,
                  token |-> TokenIdString(e.tokenId)]}
  ELSE trs

\* a variant whose failure also drops the expiration just written
EnrichedOrReset(tok, res) ==
  IF res.threw
  THEN [tok EXCEPT !.name = "", !.uri = "", !.imageURI = "", !.expires = NoExpires]
  ELSE [tok EXCEPT !.name = res.data.name, !.uri = res.data.url,
                   !.imageURI = res.data.image]

\* lines 268-286: the token after the try block ended.  The three locals start
\* as "" (lines 268-270); a throw leaves them so, a response overwrites them
\* with what its payload holds (lines 276-278); the finally block writes them
Enriched(tok, res) ==
  IF res.threw
  THEN [tok EXCEPT !.name = "", !.uri = "", !.imageURI = ""]
  ELSE [tok EXCEPT !.name = res.data.name, !.uri = res.data.url,
                   !.imageURI = res.data.image]

\* lines 260-267 and 289-302 on the token map tokmap, which holds the event's
\* token: up to the metadata call, or to the end of the iteration
ApplyEvent(tokmap, fo, too) ==
  LET e == batch[idx]
      t == TokenIdString(e.tokenId)
      owned == AssignOwner(tokmap[t], too)
  IN /\ clockAt' = [clockAt EXCEPT ![idx] = now]
     /\ IF CarriesExpires(e)
        THEN /\ tokens' = MapSet(tokmap, t, AssignExpires(owned, e))
             /\ UNCHANGED transfers
             /\ IF IsExpired(e, now)
                THEN /\ enrichLog' = [enrichLog EXCEPT ![idx] = "expired"]
                     /\ idx' = idx + 1
                     /\ pc' = "loop"
                ELSE /\ pc' = "enrich"
                     /\ UNCHANGED <<idx, enrichLog>>
        ELSE /\ tokens' = MapSet(tokmap, t, owned)
             /\ transfers' = AddTransfer(transfers, e, fo, too)
             /\ enrichLog' = [enrichLog EXCEPT ![idx] = "none"]
             /\ idx' = idx + 1
             /\ pc' = "loop"

\* an iteration begins, lines 224-259: the owners are resolved; a token in the map
\* is mutated at once, an absent one waits for the contract entity
EventBegin ==
  /\ pc = "loop"
  /\ idx <= Len(batch)
  /\ LET e == batch[idx]
         rf == ResolveOwner(owners, made, e.from)
         rt == ResolveOwner(rf.map, rf.counts, e.to)
         t == TokenIdString(e.tokenId)
     IN /\ owners' = rt.map
        /\ made' = rt.counts
        /\ fromOwner' = rf.owner
        /\ toOwner' = rt.owner
        /\ tokBefore' = tokens
        /\ IF t \in DOMAIN tokens
           THEN /\ ApplyEvent(tokens, rf.owner, rt.owner)
                /\ UNCHANGED <<gpc, ret, calls, returned, nGet>>
           ELSE /\ pc' = "contract"
                /\ GocEnter("main")
                /\ UNCHANGED <<tokens, transfers, idx, enrichLog, clockAt>>
  /\ UNCHANGED <<dbVars, contractEntity, now, batch, batchNo, delivered, redeliveries, restarts,
                 tokensIds, ownersIds, gfound, nObjs, nInsGood, nInsBad, prevLog,
                 dbAfter, rerun>>
  /\ UNCHANGED failVars

\* getOrCreateContractEntity has returned: lines 254-258, then the rest of the
\* iteration
TokenCreate ==
  /\ pc = "contract"
  /\ gpc["main"] = "done"
  /\ gpc' = [gpc EXCEPT !["main"] = "idle"]
  /\ LET t == TokenIdString(batch[idx].tokenId)
     IN ApplyEvent(MapSet(tokens, t, NewToken(t, ret["main"])), fromOwner, toOwner)
  /\ UNCHANGED <<dbVars, contractEntity, now, batch, batchNo, delivered, redeliveries, restarts,
                 tokensIds, ownersIds, owners, fromOwner, toOwner, gfound, ret,
                 calls, made, nObjs, nGet, nInsGood, nInsBad, returned, tokBefore,
                 prevLog, dbAfter, rerun>>
  /\ UNCHANGED failVars

\* axios.get has ended, well or not: lines 274-286, then lines 289-302
EnrichReturn ==
  /\ pc = "enrich"
  /\ \E res \in AxiosResults(TokenIdString(batch[idx].tokenId)) :
       LET e == batch[idx]
           t == TokenIdString(e.tokenId)
       IN /\ tokens' = MapSet(tokens, t, Enriched(tokens[t], res))
          /\ enrichLog' = [enrichLog EXCEPT ![idx] = ResultTag(t, res)]
          /\ transfers' = AddTransfer(transfers, e, fromOwner, toOwner)
  /\ idx' = idx + 1
  /\ pc' = "loop"
  /\ UNCHANGED <<dbVars, contractEntity, now, batch, batchNo, delivered, redeliveries, restarts,
                 tokensIds, ownersIds, owners, fromOwner, toOwner, gocVars, made,
                 nObjs, nGet, nInsGood, nInsBad, returned, tokBefore, prevLog,
                 dbAfter, rerun, clockAt>>
  /\ UNCHANGED failVars

\* a variant that issues the tokens save where the owners save belongs
SaveTokensBeforeOwners ==
  /\ pc = "loop"
  /\ idx > Len(batch)
  /\ dbTokens' = UpsertTokens(dbTokens, tokens)
  /\ pc' = "saveTokens"
  /\ UNCHANGED <<dbOwners, dbTransfers, dbGood, dbBad, contractEntity, now, batch,
                 batchNo, delivered, redeliveries, restarts, idx, tokensIds, ownersIds, tokens, owners,
                 transfers, fromOwner, toOwner, gocVars, obsVars>>
  /\ UNCHANGED failVars

\* line 304
SaveOwners ==
  /\ pc = "loop"
  /\ idx > Len(batch)
  /\ dbOwners' = UpsertOwners(dbOwners, owners)
  /\ pc' = "saveTokens"
  /\ UNCHANGED <<dbTokens, dbTransfers, dbGood, dbBad, contractEntity, now, batch,
                 batchNo, delivered, redeliveries, restarts, idx, tokensIds, ownersIds, tokens, owners,
                 transfers, fromOwner, toOwner, gocVars, obsVars>>
  /\ UNCHANGED failVars

\* line 305
SaveTokens ==
  /\ pc = "saveTokens"
  /\ dbTokens' = UpsertTokens(dbTokens, tokens)
  /\ pc' = "saveTransfers"
  /\ UNCHANGED <<dbOwners, dbTransfers, dbGood, dbBad, contractEntity, now, batch,
                 batchNo, delivered, redeliveries, restarts, idx, tokensIds, ownersIds, tokens, owners,
                 transfers, fromOwner, toOwner, gocVars, obsVars>>
  /\ UNCHANGED failVars

\* line 306; saveENSData and the handler return, their locals are gone
SaveTransfers ==
  /\ pc = "saveTransfers"
  /\ dbTransfers' = UpsertTransfers(dbTransfers, transfers)
  /\ pc' = "idle"
  /\ idx' = 0
  /\ tokensIds' = {} /\ ownersIds' = {} /\ tokens' = NoTokens /\ owners' = EmptyMap
  /\ transfers' = {} /\ fromOwner' = NoOwner /\ toOwner' = NoOwner
  /\ made' = [a \in OwnerIds |-> 0]
  /\ tokBefore' = NoTokens
  /\ outcome' = "ok"
  /\ dbStart' = NoDb
  /\ UNCHANGED <<retryOf, dbWould>>
  /\ UNCHANGED <<dbOwners, dbTokens, dbGood, dbBad, contractEntity, now, batch,
                 batchNo, delivered, redeliveries, restarts, gocVars, nObjs, nGet, nInsGood, nInsBad,
                 returned, enrichLog, prevLog, dbAfter, rerun, clockAt>>

\* an error leaves the handler of line 38: nothing of lines 38-78 and 194-307
\* catches it, the handler's locals are gone, and the batch's transaction is
\* rolled back, so the store is what it was when the handler was called
HandlerAborts ==
  /\ dbOwners' = dbStart.owners /\ dbTokens' = dbStart.tokens
  /\ dbTransfers' = dbStart.transfers
  /\ dbGood' = dbStart.good /\ dbBad' = dbStart.bad
  /\ pc' = "idle"
  /\ idx' = 0
  /\ tokensIds' = {} /\ ownersIds' = {} /\ tokens' = NoTokens /\ owners' = EmptyMap
  /\ transfers' = {} /\ fromOwner' = NoOwner /\ toOwner' = NoOwner
  /\ made' = [a \in OwnerIds |-> 0]
  /\ tokBefore' = NoTokens
  /\ UNCHANGED <<contractEntity, now, batch, batchNo, delivered, redeliveries,
                 restarts, gfound, ret, calls, nObjs, nGet, nInsGood, nInsBad,
                 returned, enrichLog, prevLog, dbAfter, rerun, clockAt, retryOf,
                 dbStart>>

\* one of the saves of lines 304-306 rejects
SaveFails ==
  /\ \/ pc = "loop" /\ idx > Len(batch)
     \/ pc \in {"saveTokens", "saveTransfers"}
  /\ outcome' = "failedSave"
  /\ dbWould' = [owners |-> UpsertOwners(dbOwners, owners),
                 tokens |-> UpsertTokens(dbTokens, tokens),
                 transfers |-> UpsertTransfers(dbTransfers, transfers),
                 good |-> dbGood, bad |-> dbBad]
  /\ UNCHANGED gpc
  /\ HandlerAborts

\* store.get (line 86), or one of the inserts (lines 103-104), rejects in the
\* call of line 256: the assignments made before the await stand
ContractStoreFails ==
  /\ pc = "contract"
  /\ gpc["main"] \in {"get", "insGood", "insBad"}
  /\ gpc' = [gpc EXCEPT !["main"] = "threw"]
  /\ outcome' = "failedContract"
  /\ dbWould' = NoDb
  /\ HandlerAborts

\* the process is restarted between two batches: module state starts afresh
\* (line 80), the store stays.  A process that has resolved nothing has nothing
\* to lose
Restart ==
  /\ pc = "idle"
  /\ nGet > 0
  /\ \A c \in Callers : gpc[c] \in {"idle", "done", "threw"}
  /\ restarts < MaxRestarts
  /\ restarts' = restarts + 1
  /\ contractEntity' = NoContract
  /\ gpc' = [c \in Callers |-> "idle"]
  /\ gfound' = [c \in Callers |-> FALSE]
  /\ ret' = [c \in Callers |-> NoContract]
  /\ calls' = [c \in Callers |-> 0]
  /\ nObjs' = 0 /\ nGet' = 0 /\ nInsGood' = 0 /\ nInsBad' = 0 /\ returned' = {}
  /\ UNCHANGED <<dbVars, now, pc, batch, batchNo, delivered, redeliveries, idx,
                 tokensIds, ownersIds, tokens, owners, transfers, fromOwner, toOwner,
                 made, tokBefore, enrichLog, prevLog, dbAfter, rerun, clockAt>>
  /\ UNCHANGED failVars

\* time passes.  The clock is read at line 264 only, so it is advanced where an
\* iteration of the loop is about to begin
Tick ==
  /\ pc = "loop"
  /\ idx <= Len(batch)
  /\ now < MaxNow
  /\ now' = now + 2 * MsPerSec
  /\ UNCHANGED <<dbVars, contractEntity, batchVars, gocVars, obsVars>>
  /\ UNCHANGED failVars

----------------------------------------------------------------------------
(* Specifications *)

\* the indexer: batches one after the other, each run to its end
Next ==
  \/ RunHandler
  \/ Redeliver
  \/ FetchTokens
  \/ FetchOwners
  \/ EventBegin
  \/ GocGetExec("main")
  \/ GocGetResume("main")
  \/ GocInsertGood("main")
  \/ GocInsertBad("main")
  \/ TokenCreate
  \/ EnrichReturn
  \/ SaveOwners
  \/ SaveTokens
  \/ SaveTransfers
  \/ Restart
  \/ Tick

Spec == Init /\ [][Next]_vars

\* the indexer on batches of events that are all on one token
NextOneToken ==
  \/ RunHandlerOneToken
  \/ FetchTokens
  \/ FetchOwners
  \/ EventBegin
  \/ GocGetExec("main")
  \/ GocGetResume("main")
  \/ GocInsertGood("main")
  \/ GocInsertBad("main")
  \/ TokenCreate
  \/ EnrichReturn
  \/ SaveOwners
  \/ SaveTokens
  \/ SaveTransfers

SpecOneToken == Init /\ [][NextOneToken]_vars

\* the indexer, fed by processor.run, on a store whose calls may fail
NextFail ==
  \/ RunHandler
  \/ Redeliver
  \/ FetchTokens
  \/ FetchOwners
  \/ EventBegin
  \/ GocGetExec("main")
  \/ GocGetResume("main")
  \/ GocInsertGood("main")
  \/ GocInsertBad("main")
  \/ TokenCreate
  \/ EnrichReturn
  \/ SaveOwners
  \/ SaveTokens
  \/ SaveTransfers
  \/ SaveFails
  \/ ContractStoreFails
  \/ Restart

SpecFail == Init /\ [][NextFail]_vars

\* the exported resolver called by concurrent callers of one process
NextRace ==
  \E c \in Callers :
    \/ Invoke(c)
    \/ GocGetExec(c)
    \/ GocGetResume(c)
    \/ GocInsertGood(c)
    \/ GocInsertBad(c)
    \/ Restart

SpecRace == Init /\ [][NextRace]_vars

----------------------------------------------------------------------------
(* Properties *)

\* the loop has just finished the iteration of the event Last
JustProcessed == pc = "loop" /\ idx > 1
Last == batch[idx - 1]
LastToken == TokenIdString(Last.tokenId)

\* the three collections are about to be saved, or are being saved
AtBatchEnd ==
  \/ pc = "loop" /\ idx > Len(batch)
  \/ pc \in {"saveTokens", "saveTransfers"}

\* the records of an event whose iteration reached the metadata call
EnrichTags == {"ok", "nameonly", "nofields", "failed"}

\* the records of an enrichment failure: the call rejected or threw, or its
\* payload was malformed
FailureTags == {"failed", "nameonly", "nofields"}

\* event k of the batch carried a non-zero expiration earlier than the clock
\* when it was applied
ExpiredWhenApplied(k) ==
  TruthyNum(batch[k].expires) /\ batch[k].expires * MsPerSec < clockAt[k]

HasBothEnds(e) == TruthyStr(e.from) /\ TruthyStr(e.to)
IsRegistration(e) == ~TruthyStr(e.from) /\ TruthyStr(e.to)
IsRenewal(e) == ~TruthyStr(e.to)

\* C1: every Transfer of the batch's transfer set belongs to an event of the
\* batch that has a non-empty from and a non-empty to, and every Transfer row of
\* the store has both ends; registrations and renewals add none
C1_TransferOnlyWithBothEnds ==
  /\ \A tr \in transfers :
       \E k \in 1..Len(batch) : batch[k].id = tr.id /\ HasBothEnds(batch[k])
  /\ \A r \in dbTransfers : r.from # Absent /\ r.to # Absent

\* a registration followed by a transfer has been reconciled: one Transfer
C1_Witness ==
  /\ pc = "saveTransfers"
  /\ Len(batch) = 2
  /\ IsRegistration(batch[1]) /\ CarriesExpires(batch[1])
  /\ HasBothEnds(batch[2])
  /\ Cardinality(transfers) = 1

\* C2: an event without `to` leaves the owner of its token as it was before the
\* event, for a token that had an owner
C2_RenewalKeepsOwner ==
  (JustProcessed /\ IsRenewal(Last)) =>
     ((LastToken \in DOMAIN tokBefore /\ tokBefore[LastToken].owner # NoOwner) =>
        tokens[LastToken].owner = tokBefore[LastToken].owner)

\* C3: after an event with no `from` and a `to`, the token exists and its owner is
\* the Owner of the owner map whose id is the lowercased `to`, whether the
\* iteration ended at the expired `continue` or not
C3_RegistrationSetsOwner ==
  (JustProcessed /\ IsRegistration(Last)) =>
     LET a == ToLowerCase(Last.to)
     IN /\ LastToken \in DOMAIN tokens
        /\ a \in DOMAIN owners
        /\ owners[a].id = a
        /\ tokens[LastToken].owner = owners[a]

\* an expired registration has created its token and its owner
C3_Witness ==
  /\ JustProcessed
  /\ IsRegistration(Last)
  /\ enrichLog[idx - 1] = "expired"
  /\ LastToken \notin DOMAIN tokBefore
  /\ tokens[LastToken].owner.id = ToLowerCase(Last.to)
  /\ made[ToLowerCase(Last.to)] = 1

\* the transfer set holds exactly one Transfer for event k, with the owners and
\* the token of the event
OneTransferOf(k) ==
  /\ Cardinality({tr \in transfers : tr.id = batch[k].id}) = 1
  /\ \A tr \in transfers :
       tr.id = batch[k].id =>
         /\ tr.from.id = ToLowerCase(batch[k].from)
         /\ tr.to.id = ToLowerCase(batch[k].to)
         /\ tr.token = TokenIdString(batch[k].tokenId)

\* C4: every event of the batch with both ends has exactly one Transfer in the
\* saved transfer set, with the owners and the token of the event
C4_TransferForEveryTwoEnded ==
  pc = "saveTransfers" =>
    \A k \in 1..Len(batch) : HasBothEnds(batch[k]) => OneTransferOf(k)

\* two transfers of one batch, between different owners, have each produced
\* their Transfer
C4_Witness ==
  /\ pc = "saveTransfers"
  /\ Len(batch) = 2
  /\ HasBothEnds(batch[1]) /\ HasBothEnds(batch[2])
  /\ batch[1].from # batch[1].to
  /\ Cardinality(transfers) = 2
  /\ OneTransferOf(1) /\ OneTransferOf(2)

\* C5 as claimed: of two events of the batch on one token with different `to`
\* addresses, the later decides the owner in the saved token collection,
\* provided no later event of the batch on that token assigns an owner (carries
\* a `to`)
C5_LastWriteWins ==
  AtBatchEnd =>
    \A j, k \in 1..Len(batch) :
      ( /\ j < k
        /\ batch[j].tokenId = batch[k].tokenId
        /\ TruthyStr(batch[j].to) /\ TruthyStr(batch[k].to)
        /\ batch[j].to # batch[k].to
        /\ \A m \in (k + 1)..Len(batch) :
             batch[m].tokenId = batch[k].tokenId => ~TruthyStr(batch[m].to) )
      => tokens[TokenIdString(batch[k].tokenId)].owner.id = ToLowerCase(batch[k].to)

\* C6: when a batch has been delivered a second time, and each of its events
\* met the same enrichment outcome (skipped, expired, answered, failed) as in the
\* first run, the store is what it was after the first run
C6_RedeliveryIdempotent ==
  (pc = "idle" /\ rerun /\ enrichLog = prevLog) => DbState = dbAfter

\* a batch with an enriched registration and a transfer has run twice
C6_Witness ==
  /\ pc = "idle" /\ rerun /\ enrichLog = prevLog
  /\ Len(batch) = 2
  /\ enrichLog[1] = "ok"
  /\ dbTransfers # {}
  /\ DbState = dbAfter

\* name, uri and imageURI of token t in a token map (undefined for no token)
Descriptive(tokmap, t) ==
  IF t \in DOMAIN tokmap
  THEN <<tokmap[t].name, tokmap[t].uri, tokmap[t].imageURI>>
  ELSE <<Undef, Undef, Undef>>

\* C7 as claimed: an event whose expiration value is earlier than the clock when
\* it is applied meets no metadata call, leaves name, uri and imageURI as they
\* were, and sets the token's expiration to its value
C7_ExpiredEventGated ==
  ( /\ JustProcessed
    /\ Last.expires # NoExpires
    /\ Last.expires * MsPerSec < clockAt[idx - 1] )
  => /\ enrichLog[idx - 1] \notin EnrichTags
     /\ Descriptive(tokens, LastToken) = Descriptive(tokBefore, LastToken)
     /\ tokens[LastToken].expires = Last.expires

\* C8 as claimed: after an event whose enrichment failed (the call rejected or
\* threw, or its payload was malformed), the token's name, uri and imageURI are
\* empty strings and its owner and expiration are the event's; the loop goes on;
\* and when the handler has returned, every event of the batch has been through
\* the loop and the owners, the tokens and the transfers of the batch are in the
\* store
C8_EnrichFailureIsolated ==
  /\ (JustProcessed /\ enrichLog[idx - 1] \in FailureTags) =>
       /\ Descriptive(tokens, LastToken) = <<"", "", "">>
       /\ tokens[LastToken].owner.id = ToLowerCase(Last.to)
       /\ tokens[LastToken].expires = Last.expires
       /\ \A k \in 1..Len(batch) : (enrichLog[k] = "todo") = (k >= idx)
  /\ (pc = "idle" /\ batchNo > 0) =>
       /\ \A k \in 1..Len(batch) : enrichLog[k] # "todo"
       /\ TokensIdsOf(batch) \subseteq DOMAIN dbTokens
       /\ OwnersIdsOf(batch) \subseteq dbOwners
       /\ \A k \in 1..Len(batch) :
            (HasBothEnds(batch[k]) /\ ~ExpiredWhenApplied(k)) =>
               \E r \in dbTransfers : r.id = batch[k].id

\* C9: in one process whose calls of getOrCreateContractEntity follow one
\* another, at most one insert of the GoodContract row, one insert of the
\* BadContract row and one lookup are issued, none is inserted when the lookup
\* found the row, and all calls return one instance
C9_ContractResolvedOnce ==
  /\ nInsGood <= 1
  /\ nInsBad <= 1
  /\ nGet <= 1
  /\ gfound["main"] => (nInsGood = 0 /\ nInsBad = 0)
  /\ Cardinality(returned) <= 1

\* two batches have each created a token: two calls, one lookup, one insert of
\* each row, one instance
C9_Witness ==
  /\ batchNo = 2
  /\ pc = "idle"
  /\ calls["main"] = 2
  /\ nGet = 1 /\ nInsGood = 1 /\ nInsBad = 1
  /\ returned = {contractEntity}
  /\ contractEntity # NoContract

\* C10 as claimed: with calls of getOrCreateContractEntity in flight at the same
\* time, each of the two rows is still inserted at most once
C10_RaceInsertsOnce ==
  /\ nInsGood <= 1
  /\ nInsBad <= 1

\* the ids of the Owner objects of the working owner map
OwnerIdsSaved == {owners[k].id : k \in DOMAIN owners}

\* C11: the owner rows change only at the owners save, which is the first of the
\* three; the token rows change only at the tokens save, when every owner of the
\* batch's owner map is in the store; the transfer rows change only at the
\* transfers save, when every token of the batch's token map is in the store as
\* the batch has it
C11_SavesInDependencyOrder ==
  [][ /\ (dbOwners' # dbOwners) => (pc = "loop" /\ idx > Len(batch))
      /\ (dbTokens' # dbTokens) =>
           (pc = "saveTokens" /\ OwnerIdsSaved \subseteq dbOwners)
      /\ (dbTransfers' # dbTransfers) =>
           /\ pc = "saveTransfers"
           /\ OwnerIdsSaved \subseteq dbOwners
           /\ \A t \in DOMAIN tokens :
                t \in DOMAIN dbTokens /\ dbTokens[t] = TokenRow(tokens[t])
    ]_vars

\* the owners and the tokens of a batch with a transfer are in the store, its
\* Transfer is not yet
C11_Witness ==
  /\ pc = "saveTransfers"
  /\ transfers # {}
  /\ \A tr \in transfers :
       /\ tr.id \notin {r.id : r \in dbTransfers}
       /\ tr.from.id \in dbOwners /\ tr.to.id \in dbOwners
       /\ tr.token \in DOMAIN dbTokens

\* C12 as claimed: in one batch at most one Owner object is materialised per
\* lowercase address, every Transfer references the Owner objects of the working
\* map, and at batch end so does every Token that has an owner
C12_OneObjectPerIdentity ==
  /\ \A a \in OwnerIds : made[a] <= 1
  /\ \A tr \in transfers :
       /\ OwnerLookup(owners, tr.from.id) = tr.from
       /\ OwnerLookup(owners, tr.to.id) = tr.to
  /\ AtBatchEnd =>
       \A t \in DOMAIN tokens :
         tokens[t].owner # NoOwner =>
           OwnerLookup(owners, tokens[t].owner.id) = tokens[t].owner

\* the last run of the handler ended in a store failure
RunFailed == pc = "idle" /\ outcome \in {"failedSave", "failedContract"}

\* C13 as claimed: when a store write of a batch has failed, the handler is
\* left, the store holds none of the batch's writes, and a retry of the batch
\* that meets the same enrichment outcomes leaves the store as the run would
\* have left it had the save not failed
C13_FailedBatchRetriesClean ==
  /\ RunFailed => DbState = dbStart
  /\ ( /\ pc = "idle" /\ outcome = "ok"
       /\ rerun /\ retryOf = "failedSave"
       /\ enrichLog = prevLog )
     => DbState = dbWould

\* the expiration of token t in a token map (undefined for no token)
ExpiresOf(tokmap, t) == IF t \in DOMAIN tokmap THEN tokmap[t].expires ELSE NoExpires

\* C14 as claimed: an event that carries an expiration value, 0 included, leaves
\* it in the token's expiration field, and an event that carries none leaves the
\* field as it was
C14_ExpiresWrittenByCarriers ==
  JustProcessed =>
    IF Last.expires # NoExpires
    THEN tokens[LastToken].expires = Last.expires
    ELSE tokens[LastToken].expires = ExpiresOf(tokBefore, LastToken)

\* C15: the step in which the metadata call of an event on token T ends, well
\* or not, leaves every other token, T's id, owner, expiration and contract,
\* the owner map, the contract cache and every Transfer already in the transfer
\* set as they were (the Transfer it may add is the event's own, of lines
\* 289-301); and an iteration on an event without expiration value leaves T's
\* name, uri and imageURI as they were
C15_EnrichmentFrame ==
  [][ LET t == TokenIdString(batch[idx].tokenId)
      IN /\ (pc = "enrich") =>
              /\ DOMAIN tokens' = DOMAIN tokens
              /\ \A u \in DOMAIN tokens : u # t => tokens'[u] = tokens[u]
              /\ tokens'[t].id = tokens[t].id
              /\ tokens'[t].owner = tokens[t].owner
              /\ tokens'[t].expires = tokens[t].expires
              /\ tokens'[t].contract = tokens[t].contract
              /\ owners' = owners
              /\ contractEntity' = contractEntity
              /\ transfers \subseteq transfers'
              /\ \A tr \in transfers' \ transfers : tr.id = batch[idx].id
         /\ ( /\ pc \in {"loop", "contract"} /\ pc' = "loop" /\ idx' = idx + 1
              /\ batch[idx].expires = NoExpires )
            => Descriptive(tokens', t) = Descriptive(tokens, t)
    ]_vars

\* an enriched token has then been transferred and keeps its name; the batch is
\* about to be saved
C15_Witness ==
  /\ pc = "loop" /\ idx = 3
  /\ enrichLog = <<"ok", "none">>
  /\ batch[1].tokenId = batch[2].tokenId
  /\ HasBothEnds(batch[2])
  /\ tokens[LastToken].name = MetaData(LastToken).name
  /\ tokens[LastToken].expires = batch[1].expires
  /\ tokens[LastToken].owner.id = ToLowerCase(batch[2].to)

\* C16: whenever the handler's call of getOrCreateContractEntity is not in
\* progress (it has not begun, has returned or has thrown), the store holds the
\* GoodContract row exactly if it holds the BadContract row
C16_ContractRowsPaired ==
  gpc["main"] \in {"idle", "done", "threw"} => (dbGood <=> dbBad)

\* the insert of the BadContract has failed after the insert of the
\* GoodContract succeeded: neither row is in the store
C16_Witness ==
  /\ gpc["main"] = "threw"
  /\ outcome = "failedContract"
  /\ nInsGood = 1 /\ nInsBad = 1
  /\ ~dbGood /\ ~dbBad

\* C17 as claimed: whenever the contract cache is filled and no resolution is in
\* progress, the store holds the GoodContract row, and every token row of the
\* store that references a contract finds the GoodContract row in the store
C17_CacheOnlyAfterSuccess ==
  /\ (~CacheIsEmpty(contractEntity) /\ gpc["main"] \in {"idle", "done", "threw"})
       => dbGood
  /\ \A t \in DOMAIN dbTokens : dbTokens[t].contract # NoContract.id => dbGood

\* C18: when the three collections are saved, every Transfer has a from and a
\* to whose ids are ids of Owners of the owner collection and a token of the
\* token collection, every Token with an owner has that owner's id in the owner
\* collection, and every Token the batch created references a contract
C18_WriteSetClosed ==
  AtBatchEnd =>
    /\ \A tr \in transfers :
         /\ tr.from.id \in OwnerIdsSaved
         /\ tr.to.id \in OwnerIdsSaved
         /\ tr.token \in DOMAIN tokens
    /\ \A t \in DOMAIN tokens :
         /\ tokens[t].owner # NoOwner => tokens[t].owner.id \in OwnerIdsSaved
         /\ t \notin DOMAIN dbStart.tokens => tokens[t].contract # NoContract

\* a batch that created a token and two owners is about to be saved with its
\* Transfer
C18_Witness ==
  /\ pc = "loop" /\ idx > Len(batch)
  /\ Cardinality(transfers) = 1
  /\ Cardinality(OwnerIdsSaved) = 2
  /\ dbOwners = {}
  /\ \E t \in DOMAIN tokens :
       /\ t \notin DOMAIN dbStart.tokens
       /\ tokens[t].contract.id = contractAddress
       /\ tokens[t].owner # NoOwner

\* C19: after a transfer event (both ends written, no expiration value) one of
\* whose ends is the zero address, the owner map holds an Owner with the zero
\* address as id, the token's owner is the Owner of `to`, and the transfer set
\* holds the event's Transfer between the Owners of `from` and `to`
C19_ZeroAddressIsAnOwner ==
  ( /\ JustProcessed
    /\ Last.from # Absent /\ Last.to # Absent
    /\ Last.expires = NoExpires
    /\ ZeroAddress \in {Last.from, Last.to} )
  => /\ ZeroAddress \in DOMAIN owners
     /\ owners[ZeroAddress].id = ZeroAddress
     /\ tokens[LastToken].owner.id = ToLowerCase(Last.to)
     /\ \E tr \in transfers :
          /\ tr.id = Last.id
          /\ tr.from.id = ToLowerCase(Last.from)
          /\ tr.to.id = ToLowerCase(Last.to)

\* a burn: a token has been transferred to the zero address, which owns it
C19_Witness ==
  /\ JustProcessed
  /\ Last.from # Absent /\ Last.from # ZeroAddress
  /\ Last.to = ZeroAddress
  /\ Last.expires = NoExpires
  /\ tokens[LastToken].owner.id = ZeroAddress
  /\ \E tr \in transfers : tr.id = Last.id /\ tr.to.id = ZeroAddress

====
